---------------------------- MODULE Spec2Model ----------------------------
(***************************************************************************)
(* Device-monitoring core of olt-manager:                                  *)
(*   backend/services/monitoring_service.py  (scheduler, task bodies,      *)
(*                                            threshold/alarm engine)      *)
(*   backend/services/snmp_service.py        (SNMP client, ZTE adapter)    *)
(*   backend/models/alarm.py                 (alarm life cycle)            *)
(*   backend/database/connection.py          (session factory)             *)
(*                                                                         *)
(* Time is in seconds.  Metric values and thresholds are fixed-point       *)
(* numbers in hundredths (80.0 is 8000).  ORM rows are records carrying    *)
(* the attributes monitoring_service.py reads and writes.                  *)
(***************************************************************************)
EXTENDS Integers, Sequences, FiniteSets, TLC

VARIABLES
    now,            \* datetime.utcnow(), seconds
    running,        \* MonitoringService.running
    main_task,      \* MonitoringService.main_task: loop id, 0 is None
    loops,          \* the _monitoring_loop asyncio tasks ever created
    tasks,          \* MonitoringService.tasks: task_id -> MonitoringTask
    stopper,        \* position of a stop() call and the task it awaits
    fails,          \* history: consecutive failed executions per task
    perf,           \* PerformanceData rows
    alarms,         \* Alarm rows (committed)
    sess,           \* the Session of a _check_thresholds pass
    olts,           \* OLT rows
    snmp_services,  \* MonitoringService.snmp_services (session cache)
    coll,           \* position of a collection or health-check run
    notifications,  \* what notification_service.send_alarm was called with
    mon,            \* position and Session of a _monitor_alarms run
    call,           \* position of a call into the SNMP service
    power,          \* a raw optical-power reading and what it decodes to
    lookups         \* concurrent calls of _get_snmp_service

vars == <<now, running, main_task, loops, tasks, stopper, fails,
          perf, alarms, sess, olts, snmp_services, coll,
          notifications, mon, call, power, lookups>>

schedVars == <<now, running, main_task, loops, tasks, stopper, fails>>
alarmVars == <<perf, alarms, sess>>
collVars  == <<olts, snmp_services, coll>>
notifyVars == <<notifications, mon>>
snmpVars  == <<call, power, lookups>>

---------------------------------------------------------------------------
(* Bounds of the model *)

MaxTime  == 240     \* the clock stops advancing here
ClockStep == 60     \* granularity of the clock
MaxLoops == 2       \* loop tasks ever created

(* Program constants *)

TickSeconds    == 10    \* asyncio.sleep(10) in _monitoring_loop
DefaultMaxErr  == 5     \* MonitoringTask.max_errors default
NoTime         == -1    \* None for last_run

LoopIds == 1..MaxLoops

---------------------------------------------------------------------------
(* MonitoringTask *)

DefaultTaskIds == {"global_device_discovery", "global_health_check",
                   "global_threshold_check", "global_alarm_monitoring"}
CustomTaskId   == "custom_collection"
TaskIds        == DefaultTaskIds \cup {CustomTaskId}

\* the tasks whose body raises in some execution
MayRaise == {"global_alarm_monitoring", CustomTaskId}

\* the tasks whose body or callback takes a clock step or more
Slow == {CustomTaskId}

\* the dataclass constructor with __post_init__: next_run = utcnow()
MonitoringTask(type, interval, maxerr, cb) ==
    [task_type        |-> type,
     interval_seconds |-> interval,
     enabled          |-> TRUE,
     last_run         |-> NoTime,
     next_run         |-> now,
     error_count      |-> 0,
     max_errors       |-> maxerr,
     callback         |-> cb]

is_due(task) == task.enabled /\ task.next_run <= now

is_healthy(task) == task.error_count < task.max_errors

\* variant: the next run is computed from the previous due time
schedule_next_run_from_due(task) ==
    [task EXCEPT !.next_run = task.next_run + task.interval_seconds]

schedule_next_run(task) ==
    [task EXCEPT !.next_run = now + task.interval_seconds]

mark_success(task) ==
    schedule_next_run([task EXCEPT !.last_run = now, !.error_count = 0])

\* variant: the budget comparison is strict
mark_error_strict(task) ==
    LET t1 == [task EXCEPT !.error_count = task.error_count + 1]
    IN  IF t1.error_count > t1.max_errors
        THEN [t1 EXCEPT !.enabled = FALSE]
        ELSE schedule_next_run(t1)

\* variant: the budget is counted but the task is never disabled
mark_error_silent(task) ==
    LET t1 == [task EXCEPT !.error_count = task.error_count + 1]
    IN  IF t1.error_count >= t1.max_errors
        THEN t1
        ELSE schedule_next_run(t1)

mark_error(task) ==
    LET t1 == [task EXCEPT !.error_count = task.error_count + 1]
    IN  IF t1.error_count >= t1.max_errors
        THEN [t1 EXCEPT !.enabled = FALSE]
        ELSE schedule_next_run(t1)

---------------------------------------------------------------------------
(* MonitoringService: scheduler *)

NoExec == [t \in {} |-> "body"]

FreshLoop == [pc |-> "none", cancel |-> FALSE, wake |-> 0, ex |-> NoExec]

\* _initialize_default_tasks: four add_task calls, each replacing the entry
\* of its task_id
DefaultTasks ==
    [t \in DefaultTaskIds |->
        CASE t = "global_device_discovery" ->
                MonitoringTask("device_discovery", 600, DefaultMaxErr, FALSE)
          [] t = "global_health_check" ->
                MonitoringTask("health_check", 300, DefaultMaxErr, FALSE)
          [] t = "global_threshold_check" ->
                MonitoringTask("threshold_check", 120, DefaultMaxErr, FALSE)
          [] t = "global_alarm_monitoring" ->
                MonitoringTask("alarm_monitoring", 60, DefaultMaxErr, FALSE)]

add_task(ts, id, task) ==
    [t \in (DOMAIN ts) \cup {id} |-> IF t = id THEN task ELSE ts[t]]

initialize_default_tasks(ts) ==
    [t \in (DOMAIN ts) \cup DefaultTaskIds |->
        IF t \in DefaultTaskIds THEN DefaultTasks[t] ELSE ts[t]]

\* variant: start() without the test of self.running
StartUnguarded ==
    /\ \E l \in LoopIds :
          /\ loops[l].pc = "none"
          /\ \A k \in LoopIds : (k < l) => loops[k].pc # "none"
          /\ loops' = [loops EXCEPT ![l] = [FreshLoop EXCEPT !.pc = "new"]]
          /\ main_task' = l
    /\ running' = TRUE
    /\ tasks' = initialize_default_tasks(tasks)
    /\ fails' = [t \in TaskIds |-> IF t \in DefaultTaskIds THEN 0 ELSE fails[t]]
    /\ UNCHANGED <<now, stopper>>
    /\ UNCHANGED <<alarmVars, collVars, notifyVars, snmpVars>>

\* start(): returns at once when running; else creates the loop task and
\* the default tasks (no suspension point in between)
Start ==
    /\ ~running
    /\ \E l \in LoopIds :
          /\ loops[l].pc = "none"
          /\ \A k \in LoopIds : (k < l) => loops[k].pc # "none"
          /\ loops' = [loops EXCEPT ![l] = [FreshLoop EXCEPT !.pc = "new"]]
          /\ main_task' = l
    /\ running' = TRUE
    /\ tasks' = initialize_default_tasks(tasks)
    /\ fails' = [t \in TaskIds |-> IF t \in DefaultTaskIds THEN 0 ELSE fails[t]]
    /\ UNCHANGED <<now, stopper>>
    /\ UNCHANGED <<alarmVars, collVars, notifyVars, snmpVars>>

StartWhileRunning ==
    /\ running
    /\ UNCHANGED vars

\* stop() up to its await: running = False, main_task.cancel()
StopBegin ==
    /\ stopper.pc = "idle"
    /\ running
    /\ running' = FALSE
    /\ IF main_task # 0 /\ loops[main_task].pc \in {"new", "gather", "sleep"}
       THEN loops' = [loops EXCEPT ![main_task].cancel = TRUE]
       ELSE UNCHANGED loops
    /\ stopper' = IF main_task # 0
                  THEN [pc |-> "awaiting", target |-> main_task]
                  ELSE stopper
    /\ UNCHANGED <<now, main_task, tasks, fails>>
    /\ UNCHANGED <<alarmVars, collVars, notifyVars, snmpVars>>

\* variant: stop() does not await the loop task it cancelled
StopReturnEarly ==
    /\ stopper.pc = "awaiting"
    /\ stopper' = [pc |-> "idle", target |-> 0]
    /\ UNCHANGED <<now, running, main_task, loops, tasks, fails>>
    /\ UNCHANGED <<alarmVars, collVars, notifyVars, snmpVars>>

\* stop() resumes when the awaited loop task has finished
StopReturn ==
    /\ stopper.pc = "awaiting"
    /\ loops[stopper.target].pc = "done"
    /\ stopper' = [pc |-> "idle", target |-> 0]
    /\ UNCHANGED <<now, running, main_task, loops, tasks, fails>>
    /\ UNCHANGED <<alarmVars, collVars, notifyVars, snmpVars>>

\* CancelledError reaches the loop at its await (gather or sleep); gather
\* cancels its children, whose `except Exception` does not catch it
LoopCancelled(l) ==
    /\ loops[l].cancel
    /\ loops[l].pc \in {"new", "gather", "sleep"}
    /\ loops' = [loops EXCEPT ![l] = [FreshLoop EXCEPT !.pc = "done"]]
    /\ UNCHANGED <<now, running, main_task, tasks, stopper, fails>>
    /\ UNCHANGED <<alarmVars, collVars, notifyVars, snmpVars>>

\* due_tasks of one loop iteration
DueTasks == {t \in DOMAIN tasks : is_due(tasks[t]) /\ is_healthy(tasks[t])}

\* one pass through the head of `while self.running`: leave the loop, or
\* launch the due tasks under gather, or go to sleep
LoopIterate(l) ==
    /\ ~loops[l].cancel
    /\ \/ loops[l].pc = "new"
       \/ loops[l].pc = "sleep" /\ loops[l].wake <= now
    /\ loops' = [loops EXCEPT ![l] =
          IF ~running THEN [FreshLoop EXCEPT !.pc = "done"]
          ELSE IF DueTasks # {}
               THEN [pc |-> "gather", cancel |-> FALSE, wake |-> 0,
                     ex |-> [t \in DueTasks |-> "body"]]
               ELSE [pc |-> "sleep", cancel |-> FALSE,
                     wake |-> now + TickSeconds, ex |-> NoExec]]
    /\ UNCHANGED <<now, running, main_task, tasks, stopper, fails>>
    /\ UNCHANGED <<alarmVars, collVars, notifyVars, snmpVars>>

\* _execute_task after the task body returned: mark_success, then the
\* callback when there is one
ExecuteTaskBodyOk(lp, t) ==
    [lp EXCEPT !.ex[t] = IF tasks[t].callback THEN "cb_ok" ELSE "ok"]

\* variant: the exception leaves _execute_task and gather, and the loop's own
\* handler sleeps 30 s
ExecuteTaskBodyEscapes(lp, t) ==
    [lp EXCEPT !.ex[t] = "failed", !.pc = "sleep", !.wake = now + 30]

\* _execute_task after the task body raised: the handler runs mark_error,
\* then the callback when there is one; the exception stays in the handler
ExecuteTaskBodyRaised(lp, t) ==
    [lp EXCEPT !.ex[t] = IF tasks[t].callback THEN "cb_err" ELSE "failed"]

Executing(l, t, at) ==
    /\ loops[l].pc = "gather"
    /\ ~loops[l].cancel
    /\ t \in DOMAIN loops[l].ex
    /\ loops[l].ex[t] = at

BodyReturn(l, t) ==
    /\ Executing(l, t, "body")
    /\ tasks' = [tasks EXCEPT ![t] = mark_success(tasks[t])]
    /\ loops' = [loops EXCEPT ![l] = ExecuteTaskBodyOk(loops[l], t)]
    /\ fails' = [fails EXCEPT ![t] = 0]
    /\ UNCHANGED <<now, running, main_task, stopper>>
    /\ UNCHANGED <<alarmVars, collVars, notifyVars, snmpVars>>

BodyRaise(l, t) ==
    /\ Executing(l, t, "body")
    /\ t \in MayRaise
    /\ tasks' = [tasks EXCEPT ![t] = mark_error(tasks[t])]
    /\ loops' = [loops EXCEPT ![l] = ExecuteTaskBodyRaised(loops[l], t)]
    /\ fails' = [fails EXCEPT ![t] = fails[t] + 1]
    /\ UNCHANGED <<now, running, main_task, stopper>>
    /\ UNCHANGED <<alarmVars, collVars, notifyVars, snmpVars>>

\* callback(task, success=True) returned
CallbackOkReturn(l, t) ==
    /\ Executing(l, t, "cb_ok")
    /\ loops' = [loops EXCEPT ![l].ex[t] = "ok"]
    /\ UNCHANGED <<now, running, main_task, tasks, stopper, fails>>
    /\ UNCHANGED <<alarmVars, collVars, notifyVars, snmpVars>>

\* callback(task, success=True) raised inside the try block: the handler
\* runs mark_error and calls the callback again with success=False
CallbackOkRaise(l, t) ==
    /\ Executing(l, t, "cb_ok")
    /\ tasks' = [tasks EXCEPT ![t] = mark_error(tasks[t])]
    /\ loops' = [loops EXCEPT ![l].ex[t] = "cb_err"]
    /\ fails' = [fails EXCEPT ![t] = fails[t] + 1]
    /\ UNCHANGED <<now, running, main_task, stopper>>
    /\ UNCHANGED <<alarmVars, collVars, notifyVars, snmpVars>>

\* callback(task, success=False, ...) returned, or raised out of the
\* handler into gather(return_exceptions=True)
CallbackErrDone(l, t) ==
    /\ Executing(l, t, "cb_err")
    /\ loops' = [loops EXCEPT ![l].ex[t] = "failed"]
    /\ UNCHANGED <<now, running, main_task, tasks, stopper, fails>>
    /\ UNCHANGED <<alarmVars, collVars, notifyVars, snmpVars>>

\* variant: the executions are launched and not awaited
GatherDoneEarly(l) ==
    /\ loops[l].pc = "gather"
    /\ ~loops[l].cancel
    /\ loops' = [loops EXCEPT ![l].pc = "sleep", ![l].wake = now + TickSeconds]
    /\ UNCHANGED <<now, running, main_task, tasks, stopper, fails>>
    /\ UNCHANGED <<alarmVars, collVars, notifyVars, snmpVars>>

\* gather returns when every execution has finished; then asyncio.sleep(10)
GatherDone(l) ==
    /\ loops[l].pc = "gather"
    /\ ~loops[l].cancel
    /\ \A t \in DOMAIN loops[l].ex : loops[l].ex[t] \in {"ok", "failed"}
    /\ loops' = [loops EXCEPT ![l].pc = "sleep", ![l].wake = now + TickSeconds]
    /\ UNCHANGED <<now, running, main_task, tasks, stopper, fails>>
    /\ UNCHANGED <<alarmVars, collVars, notifyVars, snmpVars>>

\* add_task of a task of the caller's making, with a callback, before the
\* service is first started
CustomInterval == 20
CustomMaxErr   == 3

AddTask ==
    /\ CustomTaskId \notin DOMAIN tasks
    /\ main_task = 0
    /\ tasks' = add_task(tasks, CustomTaskId,
                       MonitoringTask("performance_collection", CustomInterval,
                                      CustomMaxErr, TRUE))
    /\ fails' = [fails EXCEPT ![CustomTaskId] = 0]
    /\ UNCHANGED <<now, running, main_task, loops, stopper>>
    /\ UNCHANGED <<alarmVars, collVars, notifyVars, snmpVars>>

\* the clock
\* executions of loop l that have not finished
Unfinished(l) == {t \in DOMAIN loops[l].ex : loops[l].ex[t] \notin {"ok", "failed"}}

Elapse ==
    /\ now < MaxTime
    /\ DOMAIN tasks # {}
    /\ \A l \in LoopIds : Unfinished(l) \subseteq Slow
    /\ now' = now + ClockStep
    /\ UNCHANGED <<running, main_task, loops, tasks, stopper, fails>>
    /\ UNCHANGED <<alarmVars, collVars, notifyVars, snmpVars>>


---------------------------------------------------------------------------
(* Threshold/alarm engine: _check_thresholds, _create_threshold_alarm,     *)
(* Alarm.acknowledge, Alarm.clear                                          *)

MaxSamples     == 2     \* PerformanceData rows inserted
MaxAlarms      == 3     \* Alarm rows
MaxAlarmTime   == 800   \* the clock of the alarm engine stops here
AlarmClockStep == 400   \* its granularity

RecentSeconds == 600    \* timedelta(minutes=10)

\* MonitoringService.thresholds, in hundredths
thresholds ==
    [cpu_usage         |-> [warning |-> 8000, critical |-> 9500],
     memory_usage      |-> [warning |-> 8500, critical |-> 9500],
     temperature       |-> [warning |-> 7000, critical |-> 8500],
     optical_power_rx  |-> [warning |-> -2500, critical |-> -3000],
     optical_power_tx  |-> [warning |-> -300, critical |-> -500],
     ont_offline_ratio |-> [warning |-> 10, critical |-> 20]]

\* sources: an OLT and an OLT port whose primary keys coincide
Sources == {[device_id |-> 1, device_type |-> "olt"],
            [device_id |-> 1, device_type |-> "olt_port"]}

\* the (metric type, value) pairs of the samples inserted
SampleInputs ==
    {<<"cpu_usage", 5000>>, <<"cpu_usage", 9000>>, <<"cpu_usage", 9700>>,
     <<"optical_power_rx", -3200>>, <<"optical_power_rx", -2000>>,
     <<"power_consumption", 9700>>}

\* f"threshold_{data.metric_type.value}"
AlarmTypeOf(metric) == "threshold_" \o metric

\* variant: a metric without an entry is checked against a default pair
EvaluateDefaulting(metric, value) ==
    LET th == IF metric \in DOMAIN thresholds THEN thresholds[metric]
              ELSE [warning |-> 8000, critical |-> 9500]
    IN  IF value >= th.critical THEN "critical"
        ELSE IF value >= th.warning THEN "warning"
        ELSE "none"

\* the branch _check_thresholds takes for one sample: thresholds.get(
\* "critical", inf) and get("warning", inf) are the table's entries;
\* get("critical_low", -inf) and get("warning_low", -inf) are -inf for every
\* metric of the table, so the `<=` disjuncts are false
Evaluate(metric, value) ==
    IF metric \notin DOMAIN thresholds THEN "none"
    ELSE IF value >= thresholds[metric].critical THEN "critical"
    ELSE IF value >= thresholds[metric].warning THEN "warning"
    ELSE "none"

SeverityOf(branch) == IF branch = "critical" THEN "CRITICAL" ELSE "WARNING"

IdleSession ==
    [pc |-> "idle", recent |-> <<>>, idx |-> 1, new |-> <<>>,
     dirty |-> [i \in {} |-> 0]]

\* db.query(PerformanceData).filter(timestamp >= utcnow() - 10 min).all()
RecentData ==
    SelectSeq(perf, LAMBDA d : d.timestamp >= now - RecentSeconds)

\* an Alarm row as the session's identity map holds it
Loaded(s, i) ==
    IF i \in DOMAIN s.dirty
    THEN [alarms[i] EXCEPT !.severity = s.dirty[i].severity,
                           !.message = s.dirty[i].message,
                           !.timestamp = s.dirty[i].timestamp]
    ELSE alarms[i]

\* the rows the query of _create_threshold_alarm matches: the session has
\* autoflush=False, so rows added in this pass are not among them
ExistingAlarms(s, data) ==
    {i \in 1..Len(alarms) :
        /\ alarms[i].device_id = data.device_id
        /\ alarms[i].device_type = data.device_type
        /\ alarms[i].alarm_type = AlarmTypeOf(data.metric_type)
        /\ alarms[i].status = "ACTIVE"}

Message(data, branch) == [threshold_type |-> branch, value |-> data.value]

\* variant: an alarm is added whether or not an ACTIVE one was found
CreateThresholdAlarmAlways(s, data, branch, i) ==
    [s EXCEPT !.new = Append(s.new,
        [device_id        |-> data.device_id,
         device_type      |-> data.device_type,
         alarm_type       |-> AlarmTypeOf(data.metric_type),
         severity         |-> SeverityOf(branch),
         status           |-> "ACTIVE",
         message          |-> Message(data, branch),
         timestamp        |-> now,
         escalation_level |-> 0,
         last_notification |-> NoTime])]

\* _create_threshold_alarm with existing_alarm = row i (0: none found)
CreateThresholdAlarm(s, data, branch, i) ==
    IF i # 0
    THEN [s EXCEPT !.dirty =
            [k \in (DOMAIN s.dirty) \cup {i} |->
                IF k = i
                THEN [severity  |-> SeverityOf(branch),
                      message   |-> Message(data, branch),
                      timestamp |-> now]
                ELSE s.dirty[k]]]
    ELSE [s EXCEPT !.new = Append(s.new,
            [device_id        |-> data.device_id,
             device_type      |-> data.device_type,
             alarm_type       |-> AlarmTypeOf(data.metric_type),
             severity         |-> SeverityOf(branch),
             status           |-> "ACTIVE",
             message          |-> Message(data, branch),
             timestamp        |-> now,
             escalation_level |-> 0,
             last_notification |-> NoTime])]

\* db.commit(): the updates and the added rows reach the table
Commit(s) ==
    [i \in 1..Len(alarms) |-> Loaded(s, i)] \o s.new

\* a collector stores a sample
InsertSample ==
    /\ sess.pc = "idle"
    /\ Len(perf) < MaxSamples
    /\ \E src \in Sources, in \in SampleInputs :
          perf' = Append(perf, [device_id   |-> src.device_id,
                                device_type |-> src.device_type,
                                metric_type |-> in[1],
                                value       |-> in[2],
                                timestamp   |-> now])
    /\ UNCHANGED <<alarms, sess>>
    /\ UNCHANGED <<schedVars, collVars, notifyVars, snmpVars>>

\* time passes between passes
Wait ==
    /\ sess.pc = "idle"
    /\ now < MaxAlarmTime
    /\ now' = now + AlarmClockStep
    /\ UNCHANGED <<running, main_task, loops, tasks, stopper, fails>>
    /\ UNCHANGED <<alarmVars, collVars, notifyVars, snmpVars>>

\* _check_thresholds opens its session and reads the recent samples
CheckBegin ==
    /\ sess.pc = "idle"
    /\ Len(alarms) + Len(RecentData) <= MaxAlarms
    /\ sess' = [IdleSession EXCEPT !.pc = "loop", !.recent = RecentData]
    /\ UNCHANGED <<perf, alarms>>
    /\ UNCHANGED <<schedVars, collVars, notifyVars, snmpVars>>

\* one iteration of `for data in recent_data`
CheckSample ==
    /\ sess.pc = "loop"
    /\ sess.idx <= Len(sess.recent)
    /\ LET data   == sess.recent[sess.idx]
           branch == Evaluate(data.metric_type, data.value)
           found  == ExistingAlarms(sess, data)
           next   == [sess EXCEPT !.idx = sess.idx + 1]
       IN  IF branch = "none"
           THEN sess' = next
           ELSE IF found = {}
                THEN sess' = CreateThresholdAlarm(next, data, branch, 0)
                ELSE \E i \in found :
                        sess' = CreateThresholdAlarm(next, data, branch, i)
    /\ UNCHANGED <<perf, alarms>>
    /\ UNCHANGED <<schedVars, collVars, notifyVars, snmpVars>>

\* db.commit() after the loop
CheckCommit ==
    /\ sess.pc = "loop"
    /\ sess.idx > Len(sess.recent)
    /\ alarms' = Commit(sess)
    /\ sess' = IdleSession
    /\ UNCHANGED perf
    /\ UNCHANGED <<schedVars, collVars, notifyVars, snmpVars>>

\* variant: the status is set whatever it was
acknowledge_always(a) == [a EXCEPT !.status = "ACKNOWLEDGED"]

\* Alarm.acknowledge(username)
acknowledge(a) ==
    IF a.status = "ACTIVE" THEN [a EXCEPT !.status = "ACKNOWLEDGED"] ELSE a

\* Alarm.clear(username)
clear(a) == [a EXCEPT !.status = "CLEARED"]

Acknowledge ==
    /\ sess.pc = "idle"
    /\ \E i \in 1..Len(alarms) :
          alarms' = [alarms EXCEPT ![i] = acknowledge(alarms[i])]
    /\ UNCHANGED <<perf, sess>>
    /\ UNCHANGED <<schedVars, collVars, notifyVars, snmpVars>>

Clear ==
    /\ sess.pc = "idle"
    /\ \E i \in 1..Len(alarms) :
          alarms' = [alarms EXCEPT ![i] = clear(alarms[i])]
    /\ UNCHANGED <<perf, sess>>
    /\ UNCHANGED <<schedVars, collVars, notifyVars, snmpVars>>

---------------------------------------------------------------------------
(* Alarm lifecycle: Alarm.escalate, create_alarm of the API *)

MaxEscalation == 2   \* escalate() calls on one alarm
MaxEscalated  == 2   \* alarms of the table escalate() is called on

\* Alarm.escalate: severity_order
SeverityOrder == <<"INFO", "WARNING", "MINOR", "MAJOR", "CRITICAL">>

\* severity_order.index(severity)
IndexOf(severity) ==
    CHOOSE k \in 1..Len(SeverityOrder) : SeverityOrder[k] = severity

\* variant: the severity steps up before the test for the top of the ladder
escalate_unguarded(a) ==
    [a EXCEPT !.escalation_level = @ + 1,
              !.severity =
                  IF IndexOf(a.severity) < Len(SeverityOrder)
                  THEN SeverityOrder[IndexOf(a.severity) + 1]
                  ELSE SeverityOrder[1]]

\* Alarm.escalate()
escalate(a) ==
    LET a1 == [a EXCEPT !.escalation_level = @ + 1]
    IN  IF a1.severity # "CRITICAL"
        THEN IF IndexOf(a1.severity) < Len(SeverityOrder)
             THEN [a1 EXCEPT !.severity = SeverityOrder[IndexOf(@) + 1]]
             ELSE a1
        ELSE a1

Escalate ==
    /\ sess.pc = "idle"
    /\ \E i \in 1..Len(alarms) :
          /\ alarms[i].escalation_level < MaxEscalation
          /\ alarms' = [alarms EXCEPT ![i] = escalate(alarms[i])]
    /\ UNCHANGED <<perf, sess>>
    /\ UNCHANGED <<schedVars, collVars, notifyVars, snmpVars>>

\* the severities of the alarms made through the API
ApiSeverities == {"MAJOR"}

\* POST /alarms: an alarm is stored as ACTIVE
CreateAlarm ==
    /\ sess.pc = "idle"
    /\ Len(alarms) < MaxAlarms
    /\ \E sev \in ApiSeverities :
          alarms' = Append(alarms,
             [device_id        |-> 1,
              device_type      |-> "olt",
              alarm_type       |-> "manual",
              severity         |-> sev,
              status           |-> "ACTIVE",
              message          |-> [threshold_type |-> "none", value |-> 0],
              timestamp        |-> now,
              escalation_level |-> 0,
              last_notification |-> NoTime])
    /\ UNCHANGED <<perf, sess>>
    /\ UNCHANGED <<schedVars, collVars, notifyVars, snmpVars>>

---------------------------------------------------------------------------
(* Alarm monitoring: _monitor_alarms *)

MaxNotifications == 3      \* calls of send_alarm
MaxNotifyTime    == 7200   \* the clock of the alarm monitoring stops here
NotifyClockStep  == 3600   \* its granularity

CooldownSeconds == 3600

IdleMonitor ==
    [pc |-> "idle", active |-> <<>>, idx |-> 1, stamped |-> [i \in {} |-> 0]]

\* db.query(Alarm).filter(Alarm.status == AlarmStatus.ACTIVE).all()
ActiveAlarms ==
    LET ids == {i \in 1..Len(alarms) : alarms[i].status = "ACTIVE"}
        ord[k \in 0..Len(alarms)] ==
            IF k = 0 THEN <<>>
            ELSE IF k \in ids THEN Append(ord[k - 1], k) ELSE ord[k - 1]
    IN  ord[Len(alarms)]

\* not alarm.last_notification or
\* (utcnow() - alarm.last_notification).total_seconds() > 3600
NeedsNotification(last) == last = NoTime \/ now - last > CooldownSeconds

\* the alarm monitoring reads the ACTIVE alarms
MonitorBegin ==
    /\ mon.pc = "idle"
    /\ sess.pc = "idle"
    /\ Len(notifications) + Len(ActiveAlarms) <= MaxNotifications
    /\ mon' = [IdleMonitor EXCEPT !.pc = "loop", !.active = ActiveAlarms]
    /\ UNCHANGED notifications
    /\ UNCHANGED <<schedVars, alarmVars, collVars, snmpVars>>

\* one iteration of `for alarm in active_alarms`
MonitorAlarm ==
    /\ mon.pc = "loop"
    /\ mon.idx <= Len(mon.active)
    /\ LET i == mon.active[mon.idx]
       IN  IF NeedsNotification(alarms[i].last_notification)
           THEN /\ notifications' = Append(notifications,
                                           [alarm_id |-> i, at |-> now,
                                            status |-> alarms[i].status])
                /\ mon' = [mon EXCEPT
                      !.idx = @ + 1,
                      !.stamped = [k \in (DOMAIN mon.stamped) \cup {i} |->
                                     IF k = i THEN now ELSE mon.stamped[k]]]
           ELSE /\ mon' = [mon EXCEPT !.idx = @ + 1]
                /\ UNCHANGED notifications
    /\ UNCHANGED <<schedVars, alarmVars, collVars, snmpVars>>

\* db.commit(): the last_notification written in this run reaches the table
MonitorCommit ==
    /\ mon.pc = "loop"
    /\ mon.idx > Len(mon.active)
    /\ alarms' = [i \in 1..Len(alarms) |->
                    IF i \in DOMAIN mon.stamped
                    THEN [alarms[i] EXCEPT
                             !.last_notification = mon.stamped[i]]
                    ELSE alarms[i]]
    /\ mon' = IdleMonitor
    /\ UNCHANGED <<perf, sess, notifications>>
    /\ UNCHANGED <<schedVars, collVars, snmpVars>>

\* an exception ends the run: the Session is closed without a commit
MonitorRaises ==
    /\ mon.pc = "loop"
    /\ mon' = IdleMonitor
    /\ UNCHANGED notifications
    /\ UNCHANGED <<schedVars, alarmVars, collVars, snmpVars>>

\* time passes between runs of the alarm monitoring
NotifyWait ==
    /\ mon.pc = "idle"
    /\ sess.pc = "idle"
    /\ alarms # <<>>
    /\ now < MaxNotifyTime
    /\ now' = now + NotifyClockStep
    /\ UNCHANGED <<running, main_task, loops, tasks, stopper, fails>>
    /\ UNCHANGED <<alarmVars, collVars, notifyVars, snmpVars>>

---------------------------------------------------------------------------
(* Performance collection: _collect_performance_data, _get_snmp_service,   *)
(* ZTEOLTService.test_connection, get_bulk, discover_olt, get_port_info    *)

MaxOLTs  == 2     \* OLT rows in the inventory
MaxPorts == 1     \* OLTPort rows of one OLT
MaxRuns  == 2     \* runs of the collection and health-check tasks
MaxRevisions == 1 \* configuration changes of one OLT

\* what one transport call can do: answer, or fail (error indication, error
\* status or exception)
Outcomes == {"ok", "fail"}

\* the raw values a device answers with; the optical powers are in
\* hundredths of a dBm on the wire
DeviceReading ==
    [OID_CPU_USAGE        |-> 42,
     OID_MEMORY_USAGE     |-> 60,
     OID_TEMPERATURE      |-> 45,
     OID_PORT_OPTICAL_TX  |-> 250,
     OID_PORT_OPTICAL_RX  |-> -2000]

PerfOids == {"OID_CPU_USAGE", "OID_MEMORY_USAGE", "OID_TEMPERATURE"}
PortOids == {"OID_PORT_OPTICAL_TX", "OID_PORT_OPTICAL_RX"}

\* a float, in the hundredths the model stores
Float(x) == x * 100

\* SNMPService.get_bulk: every OID's value, or {} when the call fails
get_bulk(outcome, oids) ==
    IF outcome = "ok" THEN [k \in oids |-> DeviceReading[k]]
    ELSE [k \in {} |-> 0]

\* dict.get(key, default)
Get(d, key, default) == IF key \in DOMAIN d THEN d[key] ELSE default

\* ZTEOLTService.discover_olt: an OLTInfo is built from whatever the two
\* get_bulk calls returned, with 0 for every missing value
discover_olt(perf_data) ==
    [found        |-> TRUE,
     cpu_usage    |-> Float(Get(perf_data, "OID_CPU_USAGE", 0)),
     memory_usage |-> Float(Get(perf_data, "OID_MEMORY_USAGE", 0)),
     temperature  |-> Float(Get(perf_data, "OID_TEMPERATURE", 0))]

\* ZTEOLTService.get_port_info: None when get_bulk returned {}
get_port_info(port_data) ==
    IF DOMAIN port_data = {} THEN [found |-> FALSE]
    ELSE [found            |-> TRUE,
          optical_power_tx |->
              Float(Get(port_data, "OID_PORT_OPTICAL_TX", 0)) \div 100,
          optical_power_rx |->
              Float(Get(port_data, "OID_PORT_OPTICAL_RX", 0)) \div 100]

PerformanceData(id, type, metric, value) ==
    [device_id |-> id, device_type |-> type, metric_type |-> metric,
     value |-> value, timestamp |-> now]

\* the address of OLT id after rev changes of its configuration
AddressOf(id, rev) == <<10, 0, rev, id>>

\* SNMPConfig(host=olt.ip_address, community=olt.snmp_community or "public",
\*            timeout=olt.snmp_timeout or 5, retries=3)
SNMPConfig(olt) ==
    [host      |-> olt.ip_address,
     community |-> IF olt.snmp_community = "" THEN "public"
                   ELSE olt.snmp_community,
     timeout   |-> IF olt.snmp_timeout = 0 THEN 5 ELSE olt.snmp_timeout,
     retries   |-> 3]

NoService == [host |-> <<>>]

IdleCollection ==
    [pc |-> "idle", kind |-> "none", target |-> 0, olts |-> <<>>, i |-> 1,
     p |-> 1, pending |-> <<>>, base |-> 0, calls |-> [o \in {} |-> {}],
     service |-> NoService, exc |-> 0, runs |-> 0]

\* the transport calls made to OLT o in this run, by outcome
Called(c, o, rs) == [c EXCEPT !.calls[o] = @ \cup rs]

\* the active OLTs a task body reads (target 0: all of them)
ActiveOlts(target) ==
    SelectSeq(olts, LAMBDA o :
        o.status = "active" /\ (target = 0 \/ o.id = target))

\* the state of a task body that has just read its OLTs
BeginRun(kind, pc, target) ==
    LET sel == ActiveOlts(target)
    IN  [IdleCollection EXCEPT
            !.pc = pc, !.kind = kind, !.target = target, !.olts = sel,
            !.base = Len(perf), !.runs = coll.runs + 1,
            !.calls = [o \in {sel[k].id : k \in 1..Len(sel)} |-> {}]]

\* an OLT is added to the inventory
RegisterOLT ==
    /\ coll.pc = "idle"
    /\ Len(olts) < MaxOLTs
    /\ \E st \in {"active", "inactive"}, np \in 0..MaxPorts :
          LET id == Len(olts) + 1
          IN  olts' = Append(olts,
                  [id |-> id, status |-> st, rev |-> 0,
                   ip_address |-> AddressOf(id, 0),
                   snmp_community |-> "public", snmp_timeout |-> 5,
                   ports |-> [k \in 1..np |->
                               [id |-> (id - 1) * MaxPorts + k, olt_id |-> id,
                                slot_number |-> 1, port_number |-> k]]])
    /\ UNCHANGED <<snmp_services, coll>>
    /\ UNCHANGED <<schedVars, alarmVars, notifyVars, snmpVars>>

\* the configuration of an OLT is changed in the inventory
ReconfigureOLT ==
    /\ coll.pc = "idle"
    /\ \E k \in 1..Len(olts) :
          /\ olts[k].rev < MaxRevisions
          /\ olts' = [olts EXCEPT
                         ![k].rev = @ + 1,
                         ![k].ip_address = AddressOf(k, olts[k].rev + 1)]
    /\ UNCHANGED <<snmp_services, coll>>
    /\ UNCHANGED <<schedVars, alarmVars, notifyVars, snmpVars>>

\* _execute_task runs _collect_performance_data for the custom task, which
\* reads the inventory
CollectBegin ==
    /\ coll.pc = "idle"
    /\ coll.runs < MaxRuns
    /\ CustomTaskId \in DOMAIN tasks
    /\ tasks[CustomTaskId].enabled
    /\ \E target \in 0..Len(olts) :
          coll' = BeginRun("collect", "service", target)
    /\ UNCHANGED <<olts, snmp_services>>
    /\ UNCHANGED <<schedVars, alarmVars, notifyVars, snmpVars>>

\* _get_snmp_service: the cached service as it is, else a new one, made
\* from the OLT's row, that is cached only when test_connection succeeds;
\* r is the outcome of that test_connection
get_snmp_service(o, r) ==
    IF o \in DOMAIN snmp_services
    THEN [service |-> snmp_services[o], cache |-> snmp_services,
          called |-> {}]
    ELSE LET row     == CHOOSE x \in {olts[k] : k \in 1..Len(olts)} : x.id = o
             service == SNMPConfig(row)
         IN  IF r = "ok"
             THEN [service |-> service,
                   cache   |-> [x \in DOMAIN snmp_services \cup {o} |->
                                  IF x = o THEN service ELSE snmp_services[x]],
                   called  |-> {r}]
             ELSE [service |-> NoService, cache |-> snmp_services,
                   called |-> {r}]

\* the outcomes the test_connection inside _get_snmp_service can have
ServiceOutcomes(o) == IF o \in DOMAIN snmp_services THEN {"ok"} ELSE Outcomes

GetSnmpService ==
    /\ coll.pc = "service"
    /\ coll.i <= Len(coll.olts)
    /\ LET o == coll.olts[coll.i].id
       IN  \E r \in ServiceOutcomes(o) :
              LET got == get_snmp_service(o, r)
                  c   == [Called(coll, o, got.called) EXCEPT
                             !.service = got.service]
              IN  /\ snmp_services' = got.cache
                  /\ coll' = IF got.service = NoService
                             THEN [c EXCEPT !.i = coll.i + 1]
                             ELSE [c EXCEPT !.pc = "discover"]
    /\ UNCHANGED <<olts>>
    /\ UNCHANGED <<schedVars, alarmVars, notifyVars, snmpVars>>

\* discover_olt and the three samples added for a truthy olt_info
DiscoverOlt ==
    /\ coll.pc = "discover"
    /\ \E r1 \in Outcomes, r2 \in Outcomes :
          LET o        == coll.olts[coll.i].id
              olt_info == discover_olt(get_bulk(r2, PerfOids))
              c        == Called(coll, o, {r1, r2})
          IN  coll' = [c EXCEPT
                 !.pc = "ports", !.p = 1,
                 !.pending =
                    IF olt_info.found
                    THEN @ \o
                         <<PerformanceData(o, "olt", "cpu_usage",
                                           olt_info.cpu_usage),
                           PerformanceData(o, "olt", "memory_usage",
                                           olt_info.memory_usage),
                           PerformanceData(o, "olt", "temperature",
                                           olt_info.temperature)>>
                    ELSE @]
    /\ UNCHANGED <<olts, snmp_services>>
    /\ UNCHANGED <<schedVars, alarmVars, notifyVars, snmpVars>>

\* one iteration of `for port in ports`
CollectPort ==
    /\ coll.pc = "ports"
    /\ coll.p <= Len(coll.olts[coll.i].ports)
    /\ \E r \in Outcomes :
          LET o         == coll.olts[coll.i].id
              port      == coll.olts[coll.i].ports[coll.p]
              port_info == get_port_info(get_bulk(r, PortOids))
              c         == Called(coll, o, {r})
          IN  coll' = [c EXCEPT
                 !.p = coll.p + 1,
                 !.pending =
                    IF port_info.found
                    THEN @ \o
                         <<PerformanceData(port.id, "olt_port",
                               "optical_power_rx", port_info.optical_power_rx),
                           PerformanceData(port.id, "olt_port",
                               "optical_power_tx", port_info.optical_power_tx)>>
                    ELSE @]
    /\ UNCHANGED <<olts, snmp_services>>
    /\ UNCHANGED <<schedVars, alarmVars, notifyVars, snmpVars>>

\* db.commit() for the OLT
CollectCommit ==
    /\ coll.pc = "ports"
    /\ coll.p > Len(coll.olts[coll.i].ports)
    /\ perf' = perf \o coll.pending
    /\ coll' = [coll EXCEPT !.pc = "service", !.i = coll.i + 1,
                            !.pending = <<>>, !.service = NoService]
    /\ UNCHANGED <<olts, snmp_services, alarms, sess>>
    /\ UNCHANGED <<schedVars, notifyVars, snmpVars>>

\* an exception is raised while the OLT is processed: the except branch of
\* the loop body logs it and rolls the session back
CollectOltRaises ==
    /\ coll.pc \in {"discover", "ports"}
    /\ coll' = [coll EXCEPT !.pc = "service", !.i = coll.i + 1,
                            !.pending = <<>>, !.service = NoService,
                            !.exc = @ + 1]
    /\ UNCHANGED <<olts, snmp_services>>
    /\ UNCHANGED <<schedVars, alarmVars, notifyVars, snmpVars>>

\* the loop over the OLTs ends, the body returns and _execute_task marks
\* the task
CollectEnd ==
    /\ coll.pc = "service"
    /\ coll.i > Len(coll.olts)
    /\ coll' = [coll EXCEPT !.pc = "idle"]
    /\ tasks' = [tasks EXCEPT ![CustomTaskId] = mark_success(@)]
    /\ fails' = [fails EXCEPT ![CustomTaskId] = 0]
    /\ UNCHANGED <<olts, snmp_services>>
    /\ UNCHANGED <<now, running, main_task, loops, stopper>>
    /\ UNCHANGED <<alarmVars, notifyVars, snmpVars>>

---------------------------------------------------------------------------
(* Health check: _perform_health_check *)

\* _perform_health_check reads the inventory
HealthBegin ==
    /\ coll.pc = "idle"
    /\ coll.runs < MaxRuns
    /\ \E target \in 0..Len(olts) :
          coll' = BeginRun("health", "h_service", target)
    /\ UNCHANGED <<olts, snmp_services>>
    /\ UNCHANGED <<schedVars, alarmVars, notifyVars, snmpVars>>

\* _get_snmp_service for the OLT; without a service the OLT is marked
\* unreachable
HealthService ==
    /\ coll.pc = "h_service"
    /\ coll.i <= Len(coll.olts)
    /\ LET o == coll.olts[coll.i].id
       IN  \E r \in ServiceOutcomes(o) :
              LET got == get_snmp_service(o, r)
                  c   == [Called(coll, o, got.called) EXCEPT
                             !.service = got.service]
              IN  /\ snmp_services' = got.cache
                  /\ coll' = IF got.service = NoService
                             THEN [c EXCEPT
                                      !.olts[coll.i].status = "unreachable",
                                      !.i = coll.i + 1]
                             ELSE [c EXCEPT !.pc = "h_probe"]
    /\ UNCHANGED <<olts>>
    /\ UNCHANGED <<schedVars, alarmVars, notifyVars, snmpVars>>

\* snmp_service.test_connection() and the status it gives the OLT
HealthProbe ==
    /\ coll.pc = "h_probe"
    /\ \E r \in Outcomes :
          LET o == coll.olts[coll.i].id
              c == Called(coll, o, {r})
          IN  coll' = [c EXCEPT
                 !.olts[coll.i].status =
                     IF r = "ok" THEN "active" ELSE "unreachable",
                 !.pc = "h_service", !.i = coll.i + 1,
                 !.service = NoService]
    /\ UNCHANGED <<olts, snmp_services>>
    /\ UNCHANGED <<schedVars, alarmVars, notifyVars, snmpVars>>

\* an exception is raised while the OLT is checked
HealthOltRaises ==
    /\ coll.pc = "h_probe"
    /\ coll' = [coll EXCEPT !.olts[coll.i].status = "error",
                            !.pc = "h_service", !.i = coll.i + 1,
                            !.service = NoService, !.exc = @ + 1]
    /\ UNCHANGED <<olts, snmp_services>>
    /\ UNCHANGED <<schedVars, alarmVars, notifyVars, snmpVars>>

\* the rows of the inventory after the session's rows are written
WriteStatus(rows) ==
    [k \in 1..Len(olts) |->
        IF \E j \in 1..Len(rows) : rows[j].id = olts[k].id
        THEN [olts[k] EXCEPT !.status =
                 (CHOOSE r \in {rows[j] : j \in 1..Len(rows)} :
                     r.id = olts[k].id).status]
        ELSE olts[k]]

\* db.commit() after the loop over the OLTs
HealthCommit ==
    /\ coll.pc = "h_service"
    /\ coll.i > Len(coll.olts)
    /\ olts' = WriteStatus(coll.olts)
    /\ coll' = [coll EXCEPT !.pc = "idle"]
    /\ UNCHANGED snmp_services
    /\ UNCHANGED <<schedVars, alarmVars, notifyVars, snmpVars>>

---------------------------------------------------------------------------
(* Calls into the SNMP service *)

MaxOids == 3   \* OIDs of one get_bulk request
MaxRows == 2   \* rows a walk can deliver

Ops == {"get", "get_bulk", "walk", "set", "test_connection",
        "discover_all_ports", "discover_all_onts"}

\* the OIDs of the requests
OidNames ==
    <<"OID_CPU_USAGE", "OID_MEMORY_USAGE", "OID_TEMPERATURE",
      "OID_PORT_OPTICAL_TX", "OID_PORT_OPTICAL_RX">>

\* the requests of get_bulk: the first n OIDs, n = 1 .. MaxOids
OidLists == {SubSeq(OidNames, 1, n) : n \in 1..MaxOids}

\* what the transport gives back for a request: an exception out of the
\* await, an error indication (timeout after the retries, transport
\* error), an error status for the OID at error_index, or the values
Responses(oids) ==
    {[kind |-> "exception", error_index |-> 0, var_binds |-> <<>>],
     [kind |-> "indication", error_index |-> 0, var_binds |-> <<>>]}
    \cup {[kind |-> "status", error_index |-> k,
           var_binds |-> [i \in 1..Len(oids) |-> DeviceReading[oids[i]]]] :
          k \in 1..Len(oids)}
    \cup {[kind |-> "ok", error_index |-> 0,
           var_binds |-> [i \in 1..Len(oids) |-> DeviceReading[oids[i]]]]}

\* the ways a response can be a failure
Failures == {"exception", "indication", "status"}

\* Optional values: None, and a value
None == <<>>
Some(v) == <<v>>

\* what a method hands to its caller
Returned(value) == [raised |-> FALSE, value |-> value]
Raised == [raised |-> TRUE, value |-> None]

\* variant: the await is outside the try, so its exception reaches the caller
get_unguarded(resp) ==
    IF resp.kind = "exception" THEN Raised
    ELSE IF resp.kind = "ok" /\ Len(resp.var_binds) > 0
         THEN Returned(Some(resp.var_binds[1]))
         ELSE Returned(None)

\* SNMPService.get
get(resp) ==
    IF resp.kind = "ok" /\ Len(resp.var_binds) > 0
    THEN Returned(Some(resp.var_binds[1]))
    ELSE Returned(None)

\* the dict built from var_binds: results[oids[i]] = var_bind[1]
ResultsOf(oids, var_binds, n) ==
    [o \in {oids[i] : i \in 1..n} |->
        var_binds[CHOOSE i \in 1..n : oids[i] = o]]

\* variant: with an error status the values before error_index are kept
bulk_results_partial(oids, resp) ==
    IF resp.kind = "ok"
    THEN Returned(ResultsOf(oids, resp.var_binds, Len(oids)))
    ELSE IF resp.kind = "status"
         THEN Returned(ResultsOf(oids, resp.var_binds, resp.error_index - 1))
         ELSE Returned(ResultsOf(oids, resp.var_binds, 0))

\* SNMPService.get_bulk, by the response of its getCmd
bulk_results(oids, resp) ==
    IF resp.kind = "ok"
    THEN Returned(ResultsOf(oids, resp.var_binds,
            IF Len(resp.var_binds) < Len(oids) THEN Len(resp.var_binds)
            ELSE Len(oids)))
    ELSE Returned(ResultsOf(oids, resp.var_binds, 0))

\* SNMPService.set
set(resp) == Returned(resp.kind = "ok")

\* ZTEOLTService.test_connection
test_connection(resp) ==
    LET system_name == get(resp)
    IN  Returned(system_name.value # None)

\* ZTEOLTService.get_ont_info, by the dict of its get_bulk: None for {}
get_ont_info(ont_id, ont_data) ==
    IF DOMAIN ont_data = {} THEN None
    ELSE Some([ont_id |-> ont_id,
               temperature |->
                   Float(Get(ont_data, "OID_TEMPERATURE", 0)) \div 100])

\* the detail record of one entity of discover_all_ports / discover_all_onts
DetailOf(op, id, data) ==
    IF op = "discover_all_onts" THEN get_ont_info(id, data)
    ELSE IF get_port_info(data).found
         THEN Some([slot |-> 1, port |-> id,
                    optical_power_rx |-> get_port_info(data).optical_power_rx])
         ELSE None

\* the OIDs of the detail fetch of one entity
DetailOids(op) ==
    IF op = "discover_all_onts" THEN <<"OID_TEMPERATURE">>
    ELSE <<"OID_PORT_OPTICAL_TX", "OID_PORT_OPTICAL_RX">>

\* variant: a failed detail fetch ends the discovery with what it has lost
append_or_abort(found, detail) ==
    IF detail = None THEN <<>> ELSE found \o detail

\* `if info: list.append(info)`
append_if_found(found, detail) == found \o detail

IdleCall ==
    [pc |-> "idle", op |-> "none", oids |-> <<>>, rows |-> <<>>,
     fetched |-> <<>>, found |-> <<>>, last |-> "none",
     out |-> Returned(None)]

\* a method of the service is called
Invoke ==
    /\ call.pc \in {"idle", "returned"}
    /\ \E op \in Ops, oids \in OidLists :
          /\ op # "get_bulk" => Len(oids) = 1
          /\ call' = [IdleCall EXCEPT
                         !.pc = IF op \in {"walk", "discover_all_ports",
                                           "discover_all_onts"}
                                THEN "walking" ELSE "awaiting",
                         !.op = op, !.oids = oids]
    /\ UNCHANGED <<schedVars, alarmVars, collVars, notifyVars, power, lookups>>

\* the response to the getCmd / setCmd of get, get_bulk, set, test_connection
Respond ==
    /\ call.pc = "awaiting"
    /\ \E resp \in Responses(call.oids) :
          call' = [call EXCEPT
             !.pc = "returned", !.last = resp.kind,
             !.out = CASE call.op = "get" -> get(resp)
                       [] call.op = "get_bulk" -> bulk_results(call.oids, resp)
                       [] call.op = "set" -> set(resp)
                       [] call.op = "test_connection" -> test_connection(resp)]
    /\ UNCHANGED <<schedVars, alarmVars, collVars, notifyVars, power, lookups>>

\* nextCmd delivers one more row of the walked table
WalkRow ==
    /\ call.pc = "walking"
    /\ Len(call.rows) < MaxRows
    /\ call' = [call EXCEPT !.rows = Append(@, Len(@) + 1)]
    /\ UNCHANGED <<schedVars, alarmVars, collVars, notifyVars, power, lookups>>

\* the walk ends: end of the table, or a failure that breaks the loop; walk
\* returns the rows it has, and a discovery goes on with them
WalkEnd ==
    /\ call.pc = "walking"
    /\ \E kind \in Failures \cup {"end"} :
          call' = IF call.op = "walk"
                  THEN [call EXCEPT !.pc = "returned", !.last = kind,
                                    !.out = Returned(call.rows)]
                  ELSE [call EXCEPT !.pc = "fetching", !.last = kind]
    /\ UNCHANGED <<schedVars, alarmVars, collVars, notifyVars, power, lookups>>

\* get_port_info / get_ont_info for the next entity the walk found
Fetch ==
    /\ call.pc = "fetching"
    /\ Len(call.fetched) < Len(call.rows)
    /\ \E resp \in Responses(DetailOids(call.op)) :
          LET id     == call.rows[Len(call.fetched) + 1]
              data   == bulk_results(DetailOids(call.op), resp).value
              detail == DetailOf(call.op, id, data)
          IN  call' = [call EXCEPT
                 !.fetched = Append(@, resp.kind),
                 !.found = append_if_found(@, detail)]
    /\ UNCHANGED <<schedVars, alarmVars, collVars, notifyVars, power, lookups>>

\* the discovery returns the records it has
DiscoverReturn ==
    /\ call.pc = "fetching"
    /\ Len(call.fetched) = Len(call.rows)
    /\ call' = [call EXCEPT !.pc = "returned", !.out = Returned(call.found)]
    /\ UNCHANGED <<schedVars, alarmVars, collVars, notifyVars, power, lookups>>

---------------------------------------------------------------------------
(* Decoding of optical-power readings: get_port_info, get_ont_info.        *)
(* Python floats are IEEE-754 binary64: a sign, 53 mantissa bits (most     *)
(* significant first, leading 1) and an exponent, worth m * 2^e; every     *)
(* operation rounds its exact result to the nearest, ties to even.         *)

MaxRawPower == 600   \* raw readings are drawn from -MaxRawPower .. MaxRawPower

MantissaBits == 53
GuardBits == 12      \* extra quotient bits of a division by less than 2^10
ChunkBits == 16      \* bits the integer arithmetic of the model takes at once

RawPowers == (0 - MaxRawPower)..MaxRawPower \cup {-2550}

Zeros(k) == [i \in 1..k |-> 0]

Front(b) == SubSeq(b, 1, Len(b) - 1)

Last(b) == b[Len(b)]

RECURSIVE Bits(_)
\* a natural number in binary
Bits(n) == IF n = 0 THEN <<>> ELSE Append(Bits(n \div 2), n % 2)

RECURSIVE Value(_)
\* the natural number of a bit string
Value(b) == IF b = <<>> THEN 0 ELSE 2 * Value(Front(b)) + Last(b)

StripZeros(b) ==
    LET ones == {i \in 1..Len(b) : b[i] = 1}
    IN  IF ones = {} THEN <<>>
        ELSE SubSeq(b, CHOOSE i \in ones : \A j \in ones : i <= j, Len(b))

\* b + 1
Increment(b) ==
    LET zeros == {i \in 1..Len(b) : b[i] = 0}
    IN  IF zeros = {} THEN <<1>> \o Zeros(Len(b))
        ELSE LET z == CHOOSE i \in zeros : \A j \in zeros : j <= i
             IN  [i \in 1..Len(b) |->
                    IF i < z THEN b[i] ELSE IF i = z THEN 1 ELSE 0]

\* the first n bits of b as a number, rounded to nearest, ties to even (n or,
\* after a carry, n + 1 bits); sticky says that the exact value has more
\* below the last bit of b
RoundTo(b, sticky, n) ==
    LET keep  == SubSeq(b, 1, n)
        rest  == SubSeq(b, n + 1, Len(b))
        half  == rest # <<>> /\ rest[1] = 1
        more  == sticky \/ \E i \in 2..Len(rest) : rest[i] = 1
        odd   == n > 0 /\ keep[n] = 1
    IN  IF half /\ (more \/ odd) THEN Increment(keep) ELSE keep

Zero == [sign |-> 1, m |-> <<>>, e |-> 0]

\* the float nearest to sign * (b + a fraction when sticky) * 2^e
Nearest(sign, b, sticky, e) ==
    IF b = <<>> THEN Zero
    ELSE IF Len(b) < MantissaBits
         THEN [sign |-> sign, m |-> b \o Zeros(MantissaBits - Len(b)),
               e |-> e - (MantissaBits - Len(b))]
         ELSE LET r == RoundTo(b, sticky, MantissaBits)
              IN  IF Len(r) > MantissaBits
                  THEN [sign |-> sign, m |-> Front(r),
                        e |-> e + Len(b) - MantissaBits + 1]
                  ELSE [sign |-> sign, m |-> r,
                        e |-> e + Len(b) - MantissaBits]

\* float(n)
float(n) ==
    Nearest(IF n < 0 THEN -1 ELSE 1, Bits(IF n < 0 THEN 0 - n ELSE n), FALSE, 0)

\* n in binary, w bits wide
Pad(n, w) == Zeros(w - Len(Bits(n))) \o Bits(n)

RECURSIVE DivBits(_, _, _)
\* long division of a bit string by a small number, after the remainder rem
\* of the bits before it; ChunkBits bits at a time
DivBits(b, d, rem) ==
    IF b = <<>> THEN [q |-> <<>>, rem |-> rem]
    ELSE LET w    == IF Len(b) < ChunkBits THEN Len(b) ELSE ChunkBits
             t    == rem * 2^w + Value(SubSeq(b, 1, w))
             rest == DivBits(SubSeq(b, w + 1, Len(b)), d, t % d)
         IN  [q |-> Pad(t \div d, w) \o rest.q, rem |-> rest.rem]

\* x / d
TrueDiv(x, d) ==
    LET r == DivBits(x.m \o Zeros(GuardBits), d, 0)
    IN  Nearest(x.sign, StripZeros(r.q), r.rem # 0, x.e - GuardBits)

RECURSIVE MulBits(_, _, _)
\* a bit string times a small number k, plus carry: the low Len(b) bits of
\* the product and what is carried out of them; ChunkBits bits at a time
MulBits(b, k, carry) ==
    IF b = <<>> THEN [p |-> <<>>, carry |-> carry]
    ELSE LET w    == IF Len(b) < ChunkBits THEN Len(b) ELSE ChunkBits
             t    == Value(SubSeq(b, Len(b) - w + 1, Len(b))) * k + carry
             rest == MulBits(SubSeq(b, 1, Len(b) - w), k, t \div 2^w)
         IN  [p |-> rest.p \o Pad(t % 2^w, w), carry |-> rest.carry]

\* x * k
Times(x, k) ==
    LET r == MulBits(x.m, k, 0)
    IN  Nearest(x.sign, StripZeros(Bits(r.carry) \o r.p), FALSE, x.e)

\* round(x): the nearest integer, ties to even
Round(x) ==
    LET n == MantissaBits + x.e   \* bits before the binary point
    IN  IF x.m = <<>> \/ n < 0 THEN 0
        ELSE IF x.e >= 0 THEN x.sign * Value(x.m \o Zeros(x.e))
        ELSE x.sign * Value(RoundTo(x.m, FALSE, n))

\* variant: the scaling of the voltage readings, / 1000
decode_power_milli(raw) == TrueDiv(float(raw), 1000)

\* float(port_data.get(OID_PORT_OPTICAL_RX, 0)) / 100, and the same for
\* the rx_power and tx_power of an ONT
decode_power(raw) == TrueDiv(float(raw), 100)

IdlePower == [pc |-> "idle", raw |-> 0, value |-> Zero]

\* the device answers the optical-power OID with a raw integer
ReadPower ==
    /\ power.pc # "raw"
    /\ \E raw \in RawPowers : power' = [pc |-> "raw", raw |-> raw, value |-> Zero]
    /\ UNCHANGED <<schedVars, alarmVars, collVars, notifyVars, call, lookups>>

\* get_port_info decodes optical_power_rx
DecodePortPower ==
    /\ power.pc = "raw"
    /\ power' = [power EXCEPT !.pc = "port", !.value = decode_power(power.raw)]
    /\ UNCHANGED <<schedVars, alarmVars, collVars, notifyVars, call, lookups>>

\* get_ont_info decodes rx_power
DecodeOntPower ==
    /\ power.pc = "raw"
    /\ power' = [power EXCEPT !.pc = "ont", !.value = decode_power(power.raw)]
    /\ UNCHANGED <<schedVars, alarmVars, collVars, notifyVars, call, lookups>>

---------------------------------------------------------------------------
(* Concurrent executions in _get_snmp_service: the executions gather runs *)
(* in one tick interleave at `await service.test_connection()`            *)

MaxExecutions == 2   \* executions that call _get_snmp_service concurrently

Executions == 1..MaxExecutions

\* a call that has not begun: no OLT, no ZTEOLTService object
IdleLookup ==
    [pc |-> "idle", olt |-> 0, made |-> FALSE, service |-> NoService,
     object |-> 0]

\* maker: which execution constructed the object the cache holds for an OLT
NoLookups ==
    [calls |-> [e \in Executions |-> IdleLookup],
     maker |-> [o \in {} |-> 0]]

\* _get_snmp_service up to its await: the cached object, or None for an
\* unknown OLT, or a new ZTEOLTService whose test_connection is awaited
LookupBegin(e, o) ==
    /\ lookups.calls[e].pc = "idle"
    /\ o \in 1..MaxOLTs
    /\ lookups' =
          IF o \in DOMAIN snmp_services
          THEN [lookups EXCEPT !.calls[e] =
                   [pc |-> "returned", olt |-> o, made |-> FALSE,
                    service |-> snmp_services[o],
                    object |-> lookups.maker[o]]]
          ELSE IF o > Len(olts)
          THEN [lookups EXCEPT !.calls[e] =
                   [IdleLookup EXCEPT !.pc = "returned", !.olt = o]]
          ELSE [lookups EXCEPT !.calls[e] =
                   [pc |-> "testing", olt |-> o, made |-> TRUE,
                    service |-> SNMPConfig(olts[o]), object |-> e]]
    /\ UNCHANGED <<schedVars, alarmVars, collVars, notifyVars, call, power>>

\* test_connection has answered: the new object is cached and returned, or
\* None is returned
LookupTested(e) ==
    /\ lookups.calls[e].pc = "testing"
    /\ \E r \in Outcomes :
          LET c == lookups.calls[e]
          IN  IF r = "ok"
              THEN /\ snmp_services' =
                         [x \in DOMAIN snmp_services \cup {c.olt} |->
                             IF x = c.olt THEN c.service
                             ELSE snmp_services[x]]
                   /\ lookups' =
                         [calls |-> [lookups.calls EXCEPT
                                        ![e].pc = "returned"],
                          maker |-> [x \in DOMAIN lookups.maker \cup {c.olt}
                                       |-> IF x = c.olt THEN e
                                           ELSE lookups.maker[x]]]
              ELSE /\ lookups' = [lookups EXCEPT !.calls[e] =
                         [c EXCEPT !.pc = "returned",
                                   !.service = NoService, !.object = 0]]
                   /\ UNCHANGED snmp_services
    /\ UNCHANGED <<olts, coll>>
    /\ UNCHANGED <<schedVars, alarmVars, notifyVars, call, power>>

\* the execution is over
LookupEnd(e) ==
    /\ lookups.calls[e].pc = "returned"
    /\ lookups' = [lookups EXCEPT !.calls[e] = IdleLookup]
    /\ UNCHANGED <<schedVars, alarmVars, collVars, notifyVars, call, power>>

---------------------------------------------------------------------------
(* Initial state: MonitoringService.__init__, empty stores *)

Init ==
    /\ now = 0
    /\ running = FALSE
    /\ main_task = 0
    /\ loops = [l \in LoopIds |-> FreshLoop]
    /\ tasks = [t \in {} |-> MonitoringTask("none", 0, 0, FALSE)]
    /\ stopper = [pc |-> "idle", target |-> 0]
    /\ fails = [t \in TaskIds |-> 0]
    /\ perf = <<>>
    /\ alarms = <<>>
    /\ sess = IdleSession
    /\ olts = <<>>
    /\ snmp_services = [o \in {} |-> NoService]
    /\ coll = IdleCollection
    /\ notifications = <<>>
    /\ mon = IdleMonitor
    /\ call = IdleCall
    /\ power = IdlePower
    /\ lookups = NoLookups

SchedNext ==
    \/ Start
    \/ StartWhileRunning
    \/ StopBegin
    \/ StopReturn
    \/ AddTask
    \/ Elapse
    \/ \E l \in LoopIds : LoopCancelled(l)
    \/ \E l \in LoopIds : LoopIterate(l)
    \/ \E l \in LoopIds : GatherDone(l)
    \/ \E l \in LoopIds, t \in TaskIds : BodyReturn(l, t)
    \/ \E l \in LoopIds, t \in TaskIds : BodyRaise(l, t)
    \/ \E l \in LoopIds, t \in TaskIds : CallbackOkReturn(l, t)
    \/ \E l \in LoopIds, t \in TaskIds : CallbackOkRaise(l, t)
    \/ \E l \in LoopIds, t \in TaskIds : CallbackErrDone(l, t)

SchedSpec == Init /\ [][SchedNext]_vars

AlarmNext ==
    \/ InsertSample
    \/ Wait
    \/ CheckBegin
    \/ CheckSample
    \/ CheckCommit
    \/ Acknowledge
    \/ Clear

AlarmSpec == Init /\ [][AlarmNext]_vars

\* alarms as a table can hold them: any severity and status, not escalated
AlarmRows ==
    [device_id : {1}, device_type : {"olt"}, alarm_type : {"manual"},
     severity : {SeverityOrder[k] : k \in 1..Len(SeverityOrder)},
     status : {"ACTIVE", "ACKNOWLEDGED", "CLEARED"},
     message : {[threshold_type |-> "none", value |-> 0]},
     timestamp : {0}, escalation_level : {0}, last_notification : {NoTime}]

EscalateInit ==
    /\ now = 0
    /\ running = FALSE
    /\ main_task = 0
    /\ loops = [l \in LoopIds |-> FreshLoop]
    /\ tasks = [t \in {} |-> 0]
    /\ stopper = [pc |-> "idle", target |-> 0]
    /\ fails = [t \in TaskIds |-> 0]
    /\ perf = <<>>
    /\ alarms \in [1..MaxEscalated -> AlarmRows]
    /\ sess = IdleSession
    /\ olts = <<>>
    /\ snmp_services = [o \in {} |-> NoService]
    /\ coll = IdleCollection
    /\ notifications = <<>>
    /\ mon = IdleMonitor
    /\ call = IdleCall
    /\ power = IdlePower
    /\ lookups = NoLookups

EscalateNext ==
    \/ Escalate
    \/ Acknowledge
    \/ Clear

EscalateSpec == EscalateInit /\ [][EscalateNext]_vars

LifecycleNext ==
    \/ InsertSample
    \/ CheckBegin
    \/ CheckSample
    \/ CheckCommit
    \/ Acknowledge
    \/ Clear
    \/ Escalate

LifecycleSpec == Init /\ [][LifecycleNext]_vars

NotifyNext ==
    \/ mon.pc = "idle" /\ CreateAlarm
    \/ mon.pc = "idle" /\ Acknowledge
    \/ NotifyWait
    \/ MonitorBegin
    \/ MonitorAlarm
    \/ MonitorCommit
    \/ MonitorRaises

NotifySpec == Init /\ [][NotifyNext]_vars

SnmpNext ==
    \/ Invoke
    \/ Respond
    \/ WalkRow
    \/ WalkEnd
    \/ Fetch
    \/ DiscoverReturn

SnmpSpec == Init /\ [][SnmpNext]_vars

LookupNext ==
    \/ RegisterOLT
    \/ \E e \in Executions, o \in 1..MaxOLTs : LookupBegin(e, o)
    \/ \E e \in Executions : LookupTested(e)
    \/ \E e \in Executions : LookupEnd(e)

LookupSpec == Init /\ [][LookupNext]_vars

DecodeNext ==
    \/ ReadPower
    \/ DecodePortPower
    \/ DecodeOntPower

DecodeSpec == Init /\ [][DecodeNext]_vars

CollectNext ==
    \/ RegisterOLT
    \/ ReconfigureOLT
    \/ AddTask
    \/ CollectBegin
    \/ GetSnmpService
    \/ DiscoverOlt
    \/ CollectPort
    \/ CollectCommit
    \/ CollectOltRaises
    \/ CollectEnd
    \/ HealthBegin
    \/ HealthService
    \/ HealthProbe
    \/ HealthOltRaises
    \/ HealthCommit

CollectSpec == Init /\ [][CollectNext]_vars

---------------------------------------------------------------------------
(* Scheduler claims *)

AlarmTaskId == "global_alarm_monitoring"

\* this step is the loop iteration of l that launches an execution of t
Launches(l, t) ==
    /\ loops[l].pc # "gather"
    /\ loops'[l].pc = "gather"
    /\ t \in DOMAIN loops'[l].ex

Finished(lp) == \A u \in DOMAIN lp.ex : lp.ex[u] \in {"ok", "failed"}

\* C2: a task with max_errors = 3 whose executions failed 3 times in a row
\* is disabled, and no loop iteration has it among the executions it
\* launches (a launched execution starts in its body).
C2_SelfDisable ==
    \A t \in DOMAIN tasks :
        (tasks[t].max_errors = 3 /\ fails[t] >= 3) =>
            /\ ~tasks[t].enabled
            /\ t \notin DueTasks
            /\ \A l \in LoopIds :
                  (~loops[l].cancel /\ t \in DOMAIN loops[l].ex) =>
                      loops[l].ex[t] # "body"

\* the custom task was disabled by its third failure, and a later loop
\* iteration launched other tasks without it
C2_Witness ==
    /\ CustomTaskId \in DOMAIN tasks
    /\ fails[CustomTaskId] = 3
    /\ ~tasks[CustomTaskId].enabled
    /\ \E l \in LoopIds :
          /\ loops[l].pc = "gather"
          /\ ~loops[l].cancel
          /\ AlarmTaskId \in DOMAIN loops[l].ex
          /\ CustomTaskId \notin DOMAIN loops[l].ex

\* C3: once a task is disabled, no step enables it again, changes its error
\* counter or launches it.
C3_DisabledIsTerminal ==
    [][\A t \in DOMAIN tasks :
          (~tasks[t].enabled) =>
              /\ t \in DOMAIN tasks'
              /\ ~tasks'[t].enabled
              /\ tasks'[t].error_count = tasks[t].error_count
              /\ \A l \in LoopIds : ~Launches(l, t)]_vars

\* C4: in a loop iteration where an execution failed, the loop is not torn
\* down, every other execution still in its body can return, the iteration
\* ends only when every launched execution has finished and applied its
\* mark, and the loop then iterates again.
C4_FailureIsolated ==
    \A l \in LoopIds :
        LET lp == loops[l] IN
        (~lp.cancel /\ \E t \in DOMAIN lp.ex : lp.ex[t] \in {"failed", "cb_err"}) =>
            /\ lp.pc \in {"gather", "sleep"}
            /\ (lp.pc = "gather") =>
                  \A u \in DOMAIN lp.ex :
                      (lp.ex[u] = "body") => ENABLED BodyReturn(l, u)
            /\ (lp.pc = "sleep") =>
                  /\ Finished(lp)
                  /\ \A u \in DOMAIN lp.ex :
                        (lp.ex[u] = "ok") =>
                            /\ tasks[u].last_run # NoTime
                            /\ tasks[u].error_count = 0
                  /\ (lp.wake <= now) => ENABLED LoopIterate(l)

\* the alarm task failed in the iteration that launched all default tasks,
\* the other three completed, and a later iteration is running
C4_Witness ==
    \E l \in LoopIds :
        /\ loops[l].pc = "gather"
        /\ ~loops[l].cancel
        /\ AlarmTaskId \in DOMAIN loops[l].ex
        /\ loops[l].ex[AlarmTaskId] = "body"
        /\ tasks[AlarmTaskId].error_count >= 1
        /\ \A t \in DefaultTaskIds \ {AlarmTaskId} :
              /\ tasks[t].last_run = 0
              /\ tasks[t].error_count = 0

\* C5: a body that returns sets error_count to 0 and next_run to the time of
\* completion plus the interval; a failure that stays below max_errors adds
\* 1 to error_count and sets next_run to now plus the interval; a disabled
\* task has failed max_errors times in a row.
C5_MarkStep(l, t) ==
    LET before == loops[l].ex[t]
        after  == loops'[l].ex[t]
        old    == tasks[t]
        new    == tasks'[t]
    IN  /\ (before = "body" /\ after \in {"ok", "cb_ok"}) =>
              /\ new.error_count = 0
              /\ new.last_run = now'
              /\ new.next_run = now' + old.interval_seconds
              /\ new.enabled = old.enabled
        /\ (before \in {"body", "cb_ok"} /\ after \in {"failed", "cb_err"}
               /\ old.error_count + 1 < old.max_errors) =>
              /\ new.error_count = old.error_count + 1
              /\ new.next_run = now' + old.interval_seconds
              /\ new.enabled = old.enabled

C5_Marks ==
    /\ [](\A t \in DOMAIN tasks :
            (~tasks[t].enabled) => fails[t] >= tasks[t].max_errors)
    /\ [][\A l \in LoopIds : \A t \in DOMAIN loops[l].ex :
            (loops[l].pc = "gather" /\ ~loops[l].cancel
                /\ t \in DOMAIN loops'[l].ex) => C5_MarkStep(l, t)]_vars

\* the slow custom task completed a clock step after the tasks launched with
\* it, and the alarm task has failed and been rescheduled
C5_Witness ==
    /\ CustomTaskId \in DOMAIN tasks
    /\ AlarmTaskId \in DOMAIN tasks
    /\ tasks[CustomTaskId].error_count = 0
    /\ tasks[CustomTaskId].last_run = ClockStep
    /\ tasks[CustomTaskId].next_run = ClockStep + CustomInterval
    /\ tasks["global_device_discovery"].last_run = 0
    /\ tasks[AlarmTaskId].error_count = 2
    /\ tasks[AlarmTaskId].enabled

\* stop() has been called and has returned, and start() has not been called
\* since
Stopped == main_task # 0 /\ ~running /\ stopper.pc = "idle"

\* C21: after stop() has returned and until start() is called again, no
\* execution is in flight and no loop is left that could begin one, and no
\* step changes a task.
C21_QuietAfterStop ==
    /\ [](Stopped => \A l \in LoopIds : loops[l].pc \in {"none", "done"})
    /\ [][Stopped /\ ~running' => tasks' = tasks]_vars

\* stop() has returned after tasks had run
C21_Witness ==
    /\ Stopped
    /\ \E l \in LoopIds : loops[l].pc = "done"
    /\ CustomTaskId \in DOMAIN tasks
    /\ tasks[CustomTaskId].last_run # NoTime
    /\ tasks[AlarmTaskId].error_count > 0

\* the loops that can still run a statement of their body: created, not
\* finished, and with no cancellation on its way to them
LiveLoops ==
    {l \in LoopIds : loops[l].pc \in {"new", "gather", "sleep"}
                     /\ ~loops[l].cancel}

\* C26: a loop that is not inside gather has no execution in flight, so the
\* due tasks are only selected when every execution of the tick before has
\* finished; no task has two executions in flight.
C26_GatherBeforeNextTick ==
    /\ \A l \in LoopIds :
          loops[l].pc \in {"new", "sleep", "done"} => Unfinished(l) = {}
    /\ \A t \in TaskIds :
          Cardinality({l \in LiveLoops : t \in Unfinished(l)}) <= 1

\* the custom task is still executing a clock step after the alarm task,
\* launched with it, completed; the alarm task is due again and waits
C26_Witness ==
    \E l \in LiveLoops :
        /\ loops[l].pc = "gather"
        /\ CustomTaskId \in Unfinished(l)
        /\ AlarmTaskId \in DOMAIN loops[l].ex
        /\ loops[l].ex[AlarmTaskId] = "ok"
        /\ tasks[AlarmTaskId].last_run < now
        /\ is_due(tasks[AlarmTaskId])

\* C27: an execution whose body has returned has applied mark_success and
\* calls the callback once: whether the callback returns or raises, the
\* execution is then over and the error counter is still 0.
C27_OneMarkOneCallback ==
    [][\A l \in LoopIds : \A t \in DOMAIN loops[l].ex :
          (Executing(l, t, "cb_ok") /\ t \in DOMAIN loops'[l].ex) =>
              /\ loops'[l].ex[t] \in {"cb_ok", "ok"}
              /\ tasks'[t].error_count = 0]_vars

\* C29: a task is enabled exactly when its error counter is below its
\* budget, so is_healthy holds of every enabled task.
C29_EnabledIffHealthy ==
    \A t \in DOMAIN tasks :
        /\ tasks[t].enabled <=> tasks[t].error_count < tasks[t].max_errors
        /\ tasks[t].enabled => is_healthy(tasks[t])

\* the custom task has used up its budget and is disabled, the alarm task
\* has failed and is still enabled
C29_Witness ==
    /\ CustomTaskId \in DOMAIN tasks
    /\ ~tasks[CustomTaskId].enabled
    /\ tasks[CustomTaskId].error_count = CustomMaxErr
    /\ tasks[AlarmTaskId].enabled
    /\ tasks[AlarmTaskId].error_count > 0

---------------------------------------------------------------------------
(* Threshold/alarm claims *)

\* the sample the next iteration of the pass evaluates
CurrentData == sess.recent[sess.idx]

\* a step that is one iteration of `for data in recent_data`
CheckStep ==
    /\ sess.pc = "loop"
    /\ sess.idx <= Len(sess.recent)
    /\ sess'.pc = "loop"
    /\ sess'.idx = sess.idx + 1

\* the iteration left the session's alarms as they were
NothingRaised == sess'.new = sess.new /\ sess'.dirty = sess.dirty

\* the iteration added an alarm of this severity for the sample, or gave
\* this severity to the ACTIVE alarm it found for the sample
RaisedOrUpdated(sev) ==
    \/ /\ Len(sess'.new) = Len(sess.new) + 1
       /\ sess'.new[Len(sess'.new)].severity = sev
       /\ sess'.new[Len(sess'.new)].device_id = CurrentData.device_id
       /\ sess'.new[Len(sess'.new)].device_type = CurrentData.device_type
       /\ sess'.new[Len(sess'.new)].alarm_type
             = AlarmTypeOf(CurrentData.metric_type)
    \/ \E i \in ExistingAlarms(sess, CurrentData) :
          /\ i \in DOMAIN sess'.dirty
          /\ sess'.dirty[i].severity = sev
          /\ sess'.dirty[i].message.value = CurrentData.value

\* a bound of a metric whose critical bound lies below its warning bound is
\* a lower bound: it is breached by values at or below it
LowerBounded(metric) ==
    thresholds[metric].critical < thresholds[metric].warning

Breaches(metric, bound, value) ==
    /\ metric \in DOMAIN thresholds
    /\ IF LowerBounded(metric)
       THEN value <= thresholds[metric][bound]
       ELSE value >= thresholds[metric][bound]

SameSource(a, b) ==
    /\ a.device_id = b.device_id
    /\ a.device_type = b.device_type
    /\ a.alarm_type = b.alarm_type

\* C1: the alarm store never holds two ACTIVE alarms with the same
\* device_id, device_type and alarm_type, also after a pass that evaluated
\* several breaching samples of one source.
C1_OneActivePerSource ==
    \A i \in 1..Len(alarms), j \in 1..Len(alarms) :
        /\ i # j
        /\ alarms[i].status = "ACTIVE"
        /\ alarms[j].status = "ACTIVE"
        => ~SameSource(alarms[i], alarms[j])

\* C6: a sample that breaches both the warning and the critical bound of
\* its metric raises or updates the alarm with severity CRITICAL and never
\* with WARNING.
C6_CriticalWins ==
    [][CheckStep
         /\ Breaches(CurrentData.metric_type, "warning", CurrentData.value)
         /\ Breaches(CurrentData.metric_type, "critical", CurrentData.value)
         => RaisedOrUpdated("CRITICAL") /\ ~RaisedOrUpdated("WARNING")]_vars

\* C7: an optical_power_rx sample of -20 dBm raises no alarm and one of
\* -32 dBm raises a CRITICAL alarm.
C7_OpticalRxLowerBound ==
    [][CheckStep /\ CurrentData.metric_type = "optical_power_rx"
         => /\ CurrentData.value = -2000 => NothingRaised
            /\ CurrentData.value = -3200 => RaisedOrUpdated("CRITICAL")]_vars

\* C8: evaluating a sample whose metric type has no entry in the thresholds
\* table changes nothing in the alarm store: the iteration adds and updates
\* no alarm, and a pass over such samples only commits the table as it was.
C8_NoEntryNoAlarm ==
    /\ [][CheckStep /\ CurrentData.metric_type \notin DOMAIN thresholds
            => NothingRaised /\ alarms' = alarms]_vars
    /\ [](sess.pc = "loop"
            /\ (\A k \in 1..(sess.idx - 1) :
                   sess.recent[k].metric_type \notin DOMAIN thresholds)
            => Commit(sess) = alarms)

\* a sample without a thresholds entry has been evaluated while the store
\* held an ACTIVE alarm of the same device
C8_Witness ==
    /\ sess.pc = "loop"
    /\ sess.idx > 1
    /\ sess.recent[sess.idx - 1].metric_type \notin DOMAIN thresholds
    /\ \E i \in 1..Len(alarms) :
          /\ alarms[i].status = "ACTIVE"
          /\ alarms[i].device_id = sess.recent[sess.idx - 1].device_id
          /\ alarms[i].device_type = sess.recent[sess.idx - 1].device_type

\* C9: a sample that breaches no bound makes the check add and update no
\* alarm, and an alarm's status leaves ACTIVE only by acknowledge() or
\* clear().
C9_NoBreachNoChange ==
    [][/\ CheckStep
          /\ ~Breaches(CurrentData.metric_type, "warning", CurrentData.value)
          /\ ~Breaches(CurrentData.metric_type, "critical", CurrentData.value)
          => NothingRaised
       /\ \A i \in 1..Len(alarms) :
             alarms[i].status = "ACTIVE"
             => /\ i <= Len(alarms')
                /\ \/ alarms'[i].status = "ACTIVE"
                   \/ alarms' = [alarms EXCEPT ![i] = acknowledge(alarms[i])]
                   \/ alarms' = [alarms EXCEPT ![i] = clear(alarms[i])]]_vars

\* a step that is the db.commit() of a pass
CommitStep == sess.pc = "loop" /\ sess'.pc = "idle"

\* what the breach of the current sample writes to the alarm it updates
UpdateOf(data) ==
    [severity  |-> SeverityOf(Evaluate(data.metric_type, data.value)),
     message   |-> Message(data, Evaluate(data.metric_type, data.value)),
     timestamp |-> now]

\* C23: a breach evaluated while an ACTIVE alarm of its source and type is in
\* the store creates no alarm and gives that alarm, and no other, its
\* severity (higher or lower than before), message and timestamp; the commit
\* writes these three and leaves status and escalation_level as they were.
C23_UpdateInPlace ==
    [][/\ (CheckStep
             /\ Evaluate(CurrentData.metric_type, CurrentData.value) # "none"
             /\ ExistingAlarms(sess, CurrentData) # {})
          => /\ sess'.new = sess.new
             /\ alarms' = alarms
             /\ \E i \in ExistingAlarms(sess, CurrentData) :
                   /\ DOMAIN sess'.dirty = DOMAIN sess.dirty \cup {i}
                   /\ sess'.dirty[i] = UpdateOf(CurrentData)
                   /\ \A k \in DOMAIN sess.dirty \ {i} :
                         sess'.dirty[k] = sess.dirty[k]
       /\ CommitStep
          => /\ Len(alarms') = Len(alarms) + Len(sess.new)
             /\ \A i \in 1..Len(alarms) :
                   /\ alarms'[i].status = alarms[i].status
                   /\ alarms'[i].escalation_level = alarms[i].escalation_level
                   /\ alarms'[i].last_notification
                         = alarms[i].last_notification
                   /\ SameSource(alarms'[i], alarms[i])
                   /\ IF i \in DOMAIN sess.dirty
                      THEN /\ alarms'[i].severity = sess.dirty[i].severity
                           /\ alarms'[i].message = sess.dirty[i].message
                           /\ alarms'[i].timestamp = sess.dirty[i].timestamp
                      ELSE alarms'[i] = alarms[i]]_vars

\* an alarm that had been escalated (to MINOR at least) has been given the
\* severity WARNING by a later breach, and is still ACTIVE at its level
C23_Witness ==
    /\ sess.pc = "idle"
    /\ Len(alarms) = 1
    /\ alarms[1].status = "ACTIVE"
    /\ alarms[1].severity = "WARNING"
    /\ alarms[1].escalation_level >= 1

\* C24: whichever of two evaluations of one tick commits, and in whatever
\* order their find-then-create steps run, the store holds at most one
\* ACTIVE alarm for a source and alarm type after the commit.
C24_OneActiveAfterEvaluations ==
    [][CommitStep =>
          \A i \in 1..Len(alarms'), j \in 1..Len(alarms') :
              (/\ i # j
               /\ alarms'[i].status = "ACTIVE"
               /\ alarms'[j].status = "ACTIVE")
              => ~SameSource(alarms'[i], alarms'[j])]_vars

\* C28: a pass adds no alarm for a source and alarm type of which the store
\* holds an alarm that is not CLEARED; so an acknowledged alarm whose breach
\* persists is not joined by a second one.
C28_OneOpenPerSource ==
    [][CommitStep =>
          \A k \in (Len(alarms) + 1)..Len(alarms') :
              \A i \in 1..Len(alarms) :
                  SameSource(alarms[i], alarms'[k])
                  => alarms[i].status = "CLEARED"]_vars

---------------------------------------------------------------------------
(* Collection claims *)

\* every transport call of this run to OLT o failed
AllCallsFailed(o) == o \in DOMAIN coll.calls /\ coll.calls[o] = {"fail"}

\* the sample is one of this OLT or of one of its ports
SampleOf(d, olt) ==
    \/ d.device_type = "olt" /\ d.device_id = olt.id
    \/ /\ d.device_type = "olt_port"
       /\ \E k \in 1..Len(olt.ports) : olt.ports[k].id = d.device_id

\* C10: when every transport call of a collection run to a device failed,
\* the run has stored no sample of that device, cached session or not.
C10_FailedDeviceStoresNothing ==
    \A k \in 1..Len(coll.olts) :
        AllCallsFailed(coll.olts[k].id)
        => \A j \in (coll.base + 1)..Len(perf) :
              ~SampleOf(perf[j], coll.olts[k])

\* this step is the test_connection of the health check on the OLT in turn
ProbeStep ==
    /\ coll.pc = "h_probe"
    /\ coll'.pc = "h_service"
    /\ coll'.i = coll.i + 1

\* C11: when the cached session of an OLT fails the liveness test of the
\* health check, the session is removed from the cache, so that the next
\* execution that needs the OLT makes a new one.
C11_FailedSessionEvicted ==
    [][ProbeStep /\ coll'.olts[coll.i].status = "unreachable"
         => coll.olts[coll.i].id \notin DOMAIN snmp_services']_vars

\* C12: the session an execution polls an OLT with has the address,
\* community and timeout of the OLT's row as read at the start of that
\* execution.
C12_FreshConfiguration ==
    coll.pc \in {"discover", "ports", "h_probe"}
    => coll.service = SNMPConfig(coll.olts[coll.i])

\* C13: a health-check run also probes the OLTs it was asked for that are
\* marked unreachable or error, and the status its probes gave an OLT is the
\* one stored when the run ends.
C13_StatusRecovers ==
    [][/\ coll.pc = "idle" /\ coll'.pc = "h_service"
          => \A k \in 1..Len(olts) :
                /\ olts[k].status \in {"unreachable", "error"}
                /\ coll'.target \in {0, olts[k].id}
                => \E j \in 1..Len(coll'.olts) :
                      coll'.olts[j].id = olts[k].id
       /\ coll.pc = "h_service" /\ coll'.pc = "idle"
          => \A j \in 1..Len(coll.olts) :
                olts'[coll.olts[j].id].status = coll.olts[j].status]_vars

\* C20: an execution of the collection task in whose body an exception was
\* raised, also while one OLT was being processed, ends with the task's
\* error_count increased by one.
C20_DeviceExceptionCounted ==
    [][coll.kind = "collect" /\ coll.pc = "service" /\ coll'.pc = "idle"
         /\ coll.exc > 0
         => tasks'[CustomTaskId].error_count
               = tasks[CustomTaskId].error_count + 1]_vars

---------------------------------------------------------------------------
(* Notification and lifecycle claims *)

\* C14: every notification of the alarm monitoring is for an alarm that is
\* ACTIVE, and two notifications for one alarm are more than 3600 seconds
\* apart, over any sequence of runs.
C14_NotificationCooldown ==
    /\ \A n \in 1..Len(notifications) : notifications[n].status = "ACTIVE"
    /\ \A m \in 1..Len(notifications), n \in 1..Len(notifications) :
          m < n /\ notifications[m].alarm_id = notifications[n].alarm_id
          => notifications[n].at - notifications[m].at > 3600

\* the place of a status on ACTIVE -> ACKNOWLEDGED -> CLEARED
StatusRank(status) ==
    CASE status = "ACTIVE" -> 1
      [] status = "ACKNOWLEDGED" -> 2
      [] status = "CLEARED" -> 3

\* C15: under acknowledge(), clear(), escalate() and threshold evaluation
\* the status of a stored alarm never moves backwards on ACTIVE ->
\* ACKNOWLEDGED -> CLEARED and a CLEARED alarm stays CLEARED; acknowledge()
\* turns ACTIVE into ACKNOWLEDGED and leaves any other status, clear() gives
\* CLEARED from any status, escalate() leaves the status.
C15_StatusForward ==
    /\ [](\A i \in 1..Len(alarms) :
             /\ acknowledge(alarms[i]).status
                   = IF alarms[i].status = "ACTIVE" THEN "ACKNOWLEDGED"
                     ELSE alarms[i].status
             /\ clear(alarms[i]).status = "CLEARED"
             /\ escalate(alarms[i]).status = alarms[i].status)
    /\ [][\A i \in 1..Len(alarms) :
             /\ i <= Len(alarms')
             /\ StatusRank(alarms'[i].status) >= StatusRank(alarms[i].status)
             /\ alarms[i].status = "CLEARED" => alarms'[i].status = "CLEARED"
         ]_vars

\* an alarm was cleared after an escalation and an acknowledgement-free
\* life, and the threshold evaluation has since stored an ACTIVE alarm for
\* the same source next to it
C15_Witness ==
    \E i \in 1..Len(alarms), j \in 1..Len(alarms) :
        /\ i < j
        /\ alarms[i].status = "CLEARED"
        /\ alarms[i].escalation_level > 0
        /\ alarms[j].status = "ACTIVE"
        /\ SameSource(alarms[i], alarms[j])
        /\ \E k \in 1..Len(alarms) : alarms[k].status = "ACKNOWLEDGED"

\* one step up the ladder info, warning, minor, major, critical
LadderUp ==
    [INFO |-> "WARNING", WARNING |-> "MINOR", MINOR |-> "MAJOR",
     MAJOR |-> "CRITICAL", CRITICAL |-> "CRITICAL"]

\* C16: every escalate() increases escalation_level by exactly 1 and moves
\* the severity exactly one step up the ladder; on a CRITICAL alarm the
\* severity stays CRITICAL and escalation_level still increases by 1.
C16_EscalateLadder ==
    /\ [](\A i \in 1..Len(alarms) :
             /\ escalate(alarms[i]).escalation_level
                   = alarms[i].escalation_level + 1
             /\ escalate(alarms[i]).severity = LadderUp[alarms[i].severity])
    /\ [][\A i \in 1..Len(alarms) :
             alarms'[i].escalation_level # alarms[i].escalation_level
             => /\ alarms'[i].escalation_level
                      = alarms[i].escalation_level + 1
                /\ alarms'[i].severity = LadderUp[alarms[i].severity]]_vars

\* escalate() has been called on an alarm that was already CRITICAL
C16_Witness ==
    \E i \in 1..Len(alarms) :
        /\ alarms[i].severity = "CRITICAL"
        /\ alarms[i].escalation_level = 2


---------------------------------------------------------------------------
(* SNMP service claims *)

\* the OIDs of a request, as a set
Requested == {call.oids[i] : i \in 1..Len(call.oids)}

\* C17: get_bulk over N OIDs returns a value for each of the N or the empty
\* map; after an error indication or an error status, for whichever OID, it
\* returns no value at all.
C17_BulkAllOrNothing ==
    call.pc = "returned" /\ call.op = "get_bulk"
    => /\ DOMAIN call.out.value \in {{}, Requested}
       /\ call.last \in {"indication", "status"}
          => DOMAIN call.out.value = {}

\* a request of MaxOids OIDs answered with an error status for its last OID
C17_Witness ==
    /\ call.pc = "returned" /\ call.op = "get_bulk"
    /\ Len(call.oids) = MaxOids
    /\ call.last = "status"
    /\ DOMAIN call.out.value = {}

\* the entities whose detail fetch failed
FailedFetches == {i \in 1..Len(call.fetched) : call.fetched[i] \in Failures}

\* the entity a detail record is about
EntityOf(record) ==
    IF call.op = "discover_all_onts" THEN record.ont_id ELSE record.port

\* C18: when the walk of discover_all_onts / discover_all_ports finds N
\* entities and the detail fetch fails for k of them, the call returns,
\* without raising, the N - k records of the other entities in the order of
\* the walk.
C18_DiscoveryKeepsOthers ==
    call.pc = "returned"
    /\ call.op \in {"discover_all_ports", "discover_all_onts"}
    => /\ ~call.out.raised
       /\ Len(call.fetched) = Len(call.rows)
       /\ Len(call.out.value)
            = Len(call.rows) - Cardinality(FailedFetches)
       /\ \A i \in 1..Len(call.rows) :
             i \notin FailedFetches
             => EntityOf(call.out.value[
                    i - Cardinality({j \in FailedFetches : j < i})])
                  = call.rows[i]

\* two ONTs found, the fetch of the first answered and the one of the second
\* failed: the record of the first is returned
C18_Witness ==
    /\ call.pc = "returned" /\ call.op = "discover_all_onts"
    /\ Len(call.rows) = 2
    /\ call.fetched[1] = "ok" /\ call.fetched[2] \in Failures
    /\ Len(call.out.value) = 1
    /\ call.out.value[1].ont_id = 1

\* what a method returns when its call fails
FailureValue ==
    CASE call.op = "get" -> call.out.value = None
      [] call.op = "get_bulk" -> DOMAIN call.out.value = {}
      [] call.op = "walk" -> call.out.value = call.rows
      [] call.op = "set" -> call.out.value = FALSE
      [] call.op = "test_connection" -> call.out.value = FALSE

\* C19: get, get_bulk, walk, set and test_connection never let an exception
\* escape; on a timeout, a transport error, an error status or an exception
\* inside the method they return None, the empty map, the entries collected
\* so far, False and False.
C19_NoExceptionEscapes ==
    call.pc = "returned"
    /\ call.op \in {"get", "get_bulk", "walk", "set", "test_connection"}
    => /\ ~call.out.raised
       /\ call.last \in Failures => FailureValue

\* a walk that had collected every row when the transport raised
C19_Witness ==
    /\ call.pc = "returned" /\ call.op = "walk"
    /\ call.last = "exception"
    /\ ~call.out.raised
    /\ call.out.value = <<1, 2>>


---------------------------------------------------------------------------
(* Decoding claims *)

\* C22 as stated: a decoded optical power times 100 equals the raw integer,
\* for every raw integer.
C22_ExactRoundTrip ==
    power.pc \in {"port", "ont"}
    => Times(power.value, 100) = float(power.raw)

\* -25.5 = -51 * 2^-1
MinusTwentyFiveAndAHalf ==
    [sign |-> -1, m |-> Bits(51) \o Zeros(MantissaBits - 6), e |-> -48]

\* C22, amended: a port or ONT optical-power reading is decoded as the float
\* nearest to raw / 100, with the sign kept; -2550 decodes to -25.5, and for
\* every raw integer the decoded value times 100, rounded to the nearest
\* integer, is the raw integer.
C22_RoundTrip ==
    power.pc \in {"port", "ont"}
    => /\ Round(Times(power.value, 100)) = power.raw
       /\ power.raw < 0 => power.value.sign = -1
       /\ power.raw > 0 => power.value.sign = 1
       /\ power.raw = -2550 => power.value = MinusTwentyFiveAndAHalf

\* the reading -2550 of an ONT, decoded
C22_Witness ==
    /\ power.pc = "ont"
    /\ power.raw = -2550
    /\ power.value = MinusTwentyFiveAndAHalf

---------------------------------------------------------------------------
(* Session cache claims *)

\* C25: two executions that are in _get_snmp_service for the same OLT at
\* the same time and have both got a session have got the same object, and
\* it was constructed by one of them only.
C25_OneSessionPerDevice ==
    \A e1 \in Executions, e2 \in Executions :
        LET c1 == lookups.calls[e1]
            c2 == lookups.calls[e2]
        IN  (/\ e1 # e2
             /\ c1.pc = "returned" /\ c2.pc = "returned"
             /\ c1.olt = c2.olt
             /\ c1.object # 0 /\ c2.object # 0)
            => /\ c1.object = c2.object
               /\ ~(c1.made /\ c2.made)

=============================================================================
